---- MODULE Spec2Model ----
(***************************************************************************)
(* Model of the risk classification engine, src/src/analysis/risk_engine.py*)
(* (class RiskAnalyzer), and of the way src/main.py drives it.             *)
(*                                                                         *)
(* Numbers.  The program computes with floats; the model computes with     *)
(* exact decimal fixed point, one unit per physical quantity:              *)
(*   10u, 10v, thresholds["wind_speed"]            tenths of a m/s         *)
(*   tp                                            1e-4 m                  *)
(*   tp * 1000, thresholds["precipitation"],                               *)
(*   ["rain_flash_flood"], ["rain_landslide"]      1e-4 mm                 *)
(*   2t, 2d                                        hundredths of a kelvin  *)
(*   2t - 273.15, thresholds["temp_high"],                                 *)
(*   ["temp_low"], ["wbgt_high"]                   hundredths of a degree C*)
(*   vapor pressure                                hundredths of a hPa     *)
(*   wbgt                                          1e-5 degree C           *)
(* so 0.030 m is 300, 30.0 mm is 300000, 273.15 K is 27315, 4.9 m/s is 49. *)
(*                                                                         *)
(* Grids.  An xarray DataArray of a Dataset is [dims, values]: dims is the *)
(* set of its dimension names and values the tuple of its cells.  All      *)
(* variables of one Dataset share the coordinates of a dimension, so a     *)
(* variable either has the dimension "x" (NX cells) or is 0-dimensional    *)
(* (one cell); binary operations broadcast over the union of dimensions.   *)
(***************************************************************************)
EXTENDS Integers, Sequences, FiniteSets, TLC

VARIABLES
    thresholds,   \* engine -> self.thresholds
    arg,          \* engine -> the argument its constructor was called with
    ds,           \* the caller's current Dataset
    result,       \* engine -> what its latest analyze call gave the caller
    calls,        \* engine -> number of analyze calls made on it
    input,        \* engine -> the Dataset of its latest analyze call
    frames,       \* thread -> the frame of its analyze call on engine "e1"
    identity,     \* engine -> the dict object self.thresholds refers to
    probe         \* the latest direct call of calculate_wbgt and what it gave

vars == <<thresholds, arg, ds, result, calls, input, frames, identity, probe>>

(* Number of coordinates of the dimension "x". *)
NX == 2

(* Number of analyze calls a caller makes on one engine. *)
MaxCalls == 2

(* Air temperatures and dewpoints given to calculate_wbgt directly: from *)
(* 0 degree C upwards in this many steps of 2.5 K.                       *)
MaxTempStep == 16

MaxDewStep == 12

(***************************************************************************)
(* xarray / numpy operations used by the engine                            *)
(***************************************************************************)

Size(dims) == IF dims = {} THEN 1 ELSE NX

(* the cell of a that lines up with cell i of a broadcast result *)
At(a, i) == IF a.dims = {} THEN a.values[1] ELSE a.values[i]

Cells(dims) == 1..Size(dims)

Grid(dims, values) == [dims |-> dims, values |-> values]

full_like(a, fill) == Grid(a.dims, [i \in Cells(a.dims) |-> fill])

(* a | b *)
BitOr(a, b) ==
    LET dims == a.dims \cup b.dims
    IN  Grid(dims, [i \in Cells(dims) |-> At(a, i) \/ At(b, i)])

Contains(dataset, name) == name \in DOMAIN dataset.arrays

(***************************************************************************)
(* RiskAnalyzer.__init__                                                   *)
(***************************************************************************)

default_thresholds ==
    [wind_speed |-> 150, precipitation |-> 50000, temp_high |-> 3500, temp_low |-> 0]

(* {**a, **b} *)
Merge(a, b) ==
    [k \in (DOMAIN a) \cup (DOMAIN b) |-> IF k \in DOMAIN b THEN b[k] ELSE a[k]]

(* if key not in d: d[key] = value *)
SetDefault(d, key, value) ==
    IF key \in DOMAIN d THEN d
    ELSE [k \in (DOMAIN d) \cup {key} |-> IF k = key THEN value ELSE d[k]]

EmptyMap == [k \in {} |-> 0]

(* A caller's argument: None, or a mapping (possibly empty). *)
None == [given |-> FALSE, map |-> EmptyMap]

Mapping(m) == [given |-> TRUE, map |-> m]

(* Python truthiness of the argument: None and {} are falsy. *)
Truthy(a) == a.given /\ DOMAIN a.map # {}

(* mutant: the override replaces the defaults instead of being merged *)
InitThresholdsReplace(a) ==
    LET merged == IF Truthy(a) THEN a.map ELSE default_thresholds
        t1 == SetDefault(merged, "wbgt_high", 3000)
        t2 == SetDefault(t1, "rain_flash_flood", 300000)
    IN  SetDefault(t2, "rain_landslide", 500000)

InitThresholds(a) ==
    LET merged == IF Truthy(a) THEN Merge(default_thresholds, a.map)
                  ELSE default_thresholds
        t1 == SetDefault(merged, "wbgt_high", 3000)
        t2 == SetDefault(t1, "rain_flash_flood", 300000)
    IN  SetDefault(t2, "rain_landslide", 500000)

(***************************************************************************)
(* Derived quantities                                                      *)
(***************************************************************************)

(* np.sqrt(n), kept exact: the non-negative real whose square is n. *)
Sqrt(n) == [radicand |-> n]

(* np.sqrt(n) > t, for an integer t *)
SqrtGt(s, t) == t < 0 \/ s.radicand > t * t

SumOfSquares(a, b) == a * a + b * b

(* mutant: the square root forgotten (u**2 + v**2, here in tenths) *)
calculate_wind_speed_squared(u, v) ==
    LET dims == u.dims \cup v.dims
    IN  Grid(dims, [i \in Cells(dims) |->
                       Sqrt((SumOfSquares(At(u, i), At(v, i)) \div 10)
                            * (SumOfSquares(At(u, i), At(v, i)) \div 10))])

(* mutant: the result keeps the shape of u instead of broadcasting u against v *)
calculate_wind_speed_shape_of_u(u, v) ==
    Grid(u.dims, [i \in Cells(u.dims) |-> Sqrt(SumOfSquares(At(u, i), At(v, i)))])

calculate_wind_speed(u, v) ==
    LET dims == u.dims \cup v.dims
    IN  Grid(dims, [i \in Cells(dims) |-> Sqrt(SumOfSquares(At(u, i), At(v, i)))])

(* a / b rounded to the nearest integer, for b > 0 *)
RoundDiv(a, b) == (2 * a + b) \div (2 * b)

(* np.exp on an argument in 1e-4, result in 1e-4: the Taylor series, which *)
(* is within 2e-4 of exp for arguments between -2 and 2.                   *)
RECURSIVE ExpSeries(_, _, _)
ExpSeries(x, term, n) ==
    IF term = 0 \/ n > 24 THEN 0
    ELSE term + ExpSeries(x, RoundDiv(term * x, 10000 * n), n + 1)

Exp(x) == ExpSeries(x, 10000, 1)

(* 6.112 * exp(17.67 * td_c / (td_c + 243.5)), rounded to 0.01 hPa *)
VaporPressure(dewpoint_k) ==
    LET td_c == dewpoint_k - 27315
    IN  RoundDiv(6112 * Exp(RoundDiv(1767 * td_c * 100, td_c + 24350)), 100000)

calculate_vapor_pressure(dewpoint_k) ==
    Grid(dewpoint_k.dims, [i \in Cells(dewpoint_k.dims) |-> VaporPressure(dewpoint_k.values[i])])

(* mutant: the constant 3.94 of the approximation is left out *)
WbgtNoOffset(ta_c, e) == 567 * ta_c + 393 * e

Wbgt(ta_c, e) == 567 * ta_c + 393 * e + 394000

calculate_wbgt(temp_k, dewpoint_k) ==
    LET ta_c == Grid(temp_k.dims, [i \in Cells(temp_k.dims) |-> temp_k.values[i] - 27315])
        e == calculate_vapor_pressure(dewpoint_k)
        dims == ta_c.dims \cup e.dims
    IN  Grid(dims, [i \in Cells(dims) |-> Wbgt(At(ta_c, i), At(e, i))])

(***************************************************************************)
(* RiskAnalyzer.analyze                                                    *)
(***************************************************************************)

GreaterThan(a, t) == Grid(a.dims, [i \in Cells(a.dims) |-> a.values[i] > t])

LessThan(a, t) == Grid(a.dims, [i \in Cells(a.dims) |-> a.values[i] < t])

wind_risk_of(self, dataset) ==
    LET wind_speed == calculate_wind_speed(dataset.arrays["10u"], dataset.arrays["10v"])
    IN  Grid(wind_speed.dims,
             [i \in Cells(wind_speed.dims) |-> SqrtGt(wind_speed.values[i], self["wind_speed"])])

(* mutant: the m -> mm conversion applied twice *)
rain_mm_twice(dataset) ==
    LET tp == dataset.arrays["tp"]
    IN  Grid(tp.dims, [i \in Cells(tp.dims) |-> (tp.values[i] * 1000) * 1000])

rain_mm_of(dataset) ==
    LET tp == dataset.arrays["tp"]
    IN  Grid(tp.dims, [i \in Cells(tp.dims) |-> tp.values[i] * 1000])

(* mutant: >= instead of > in the landslide comparison *)
landslide_risk_inclusive(self, dataset) ==
    LET rain_mm == rain_mm_of(dataset)
    IN  Grid(rain_mm.dims,
             [i \in Cells(rain_mm.dims) |-> rain_mm.values[i] >= self["rain_landslide"]])

(* mutant: the flash-flood comparison wired to the legacy precipitation key *)
flash_flood_risk_legacy(self, dataset) ==
    GreaterThan(rain_mm_of(dataset), self["precipitation"])

flash_flood_risk_of(self, dataset) ==
    GreaterThan(rain_mm_of(dataset), self["rain_flash_flood"])

landslide_risk_of(self, dataset) ==
    GreaterThan(rain_mm_of(dataset), self["rain_landslide"])

temp_c_of(dataset) ==
    LET t2 == dataset.arrays["2t"]
    IN  Grid(t2.dims, [i \in Cells(t2.dims) |-> t2.values[i] - 27315])

(* mutant: >= instead of > *)
heat_risk_inclusive(self, dataset) ==
    LET temp_c == temp_c_of(dataset)
    IN  Grid(temp_c.dims, [i \in Cells(temp_c.dims) |-> temp_c.values[i] >= self["temp_high"]])

heat_risk_of(self, dataset) == GreaterThan(temp_c_of(dataset), self["temp_high"])

(* mutant: the cold comparison turned around *)
cold_risk_reversed(self, dataset) ==
    GreaterThan(temp_c_of(dataset), self["temp_low"])

cold_risk_of(self, dataset) == LessThan(temp_c_of(dataset), self["temp_low"])

(* mutant: without a dewpoint, saturated air (dewpoint = temperature) is assumed *)
wbgt_risk_saturated(self, dataset) ==
    GreaterThan(calculate_wbgt(dataset.arrays["2t"],
                               IF Contains(dataset, "2d") THEN dataset.arrays["2d"]
                               ELSE dataset.arrays["2t"]),
                self["wbgt_high"] * 1000)

wbgt_risk_of(self, dataset) ==
    IF Contains(dataset, "2d")
    THEN GreaterThan(calculate_wbgt(dataset.arrays["2t"], dataset.arrays["2d"]),
                     self["wbgt_high"] * 1000)
    ELSE full_like(dataset.arrays["2t"], FALSE)

Entry(key, grid) == [key |-> key, grid |-> grid]

NoGrid == [dims |-> {}, values |-> <<>>]

Returned(risk_mask, details) ==
    [status |-> "returned", exc |-> "", risk_mask |-> risk_mask, details |-> details]

Raised(exc) ==
    [status |-> "raised", exc |-> exc, risk_mask |-> NoGrid, details |-> <<>>]

(* one category of analyze: OR its grids onto the mask, add them to details *)
AddRisks(acc, entries) ==
    [risk_mask |-> LET RECURSIVE OrAll(_, _)
                       OrAll(m, i) == IF i > Len(entries) THEN m
                                      ELSE OrAll(BitOr(m, entries[i].grid), i + 1)
                   IN  OrAll(acc.risk_mask, 1),
     details |-> acc.details \o entries]

(* mutant: wind_risk is recorded but never OR'ed onto risk_mask *)
WindStepNoOr(self, dataset, acc) ==
    IF Contains(dataset, "10u") /\ Contains(dataset, "10v")
    THEN [risk_mask |-> acc.risk_mask,
          details |-> Append(acc.details, Entry("wind_risk", wind_risk_of(self, dataset)))]
    ELSE acc

WindStep(self, dataset, acc) ==
    IF Contains(dataset, "10u") /\ Contains(dataset, "10v")
    THEN AddRisks(acc, <<Entry("wind_risk", wind_risk_of(self, dataset))>>)
    ELSE acc

RainStep(self, dataset, acc) ==
    IF Contains(dataset, "tp")
    THEN AddRisks(acc, <<Entry("flash_flood_risk", flash_flood_risk_of(self, dataset)),
                         Entry("landslide_risk", landslide_risk_of(self, dataset))>>)
    ELSE acc

(* mutant: wbgt_risk is left out of details when the dewpoint is missing *)
TempStepNoWbgt(self, dataset, acc) ==
    IF Contains(dataset, "2t")
    THEN AddRisks(acc, <<Entry("heat_risk", heat_risk_of(self, dataset)),
                         Entry("cold_risk", cold_risk_of(self, dataset))>>
                       \o (IF Contains(dataset, "2d")
                           THEN <<Entry("wbgt_risk", wbgt_risk_of(self, dataset))>>
                           ELSE <<>>))
    ELSE acc

TempStep(self, dataset, acc) ==
    IF Contains(dataset, "2t")
    THEN AddRisks(acc, <<Entry("heat_risk", heat_risk_of(self, dataset)),
                         Entry("cold_risk", cold_risk_of(self, dataset)),
                         Entry("wbgt_risk", wbgt_risk_of(self, dataset))>>)
    ELSE acc

(* the three categories, from the all-False template of target_var *)
Classify(self, dataset, target_var) ==
    LET start == [risk_mask |-> full_like(dataset.arrays[target_var], FALSE),
                  details |-> <<>>]
        final == TempStep(self, dataset,
                     RainStep(self, dataset, WindStep(self, dataset, start)))
    IN  Returned(final.risk_mask, final.details)

(* mutant: an empty Dataset yields an empty result instead of an exception *)
analyzeSilentEmpty(self, dataset) ==
    IF Contains(dataset, "2t") THEN Classify(self, dataset, "2t")
    ELSE IF Len(dataset.data_vars) = 0 THEN Returned(NoGrid, <<>>)
    ELSE Classify(self, dataset, dataset.data_vars[1])

(* mutant: target_var = '2t' unconditionally, so ds['2t'] raises KeyError *)
analyzeNeeds2t(self, dataset) ==
    IF Contains(dataset, "2t") THEN Classify(self, dataset, "2t")
    ELSE IF Len(dataset.data_vars) = 0 THEN Raised("IndexError")
    ELSE Raised("KeyError")

(* mutant: the template is always the first variable, 2t is not preferred *)
analyzeFirstVar(self, dataset) ==
    IF Len(dataset.data_vars) = 0 THEN Raised("IndexError")
    ELSE Classify(self, dataset, dataset.data_vars[1])

(* list(ds.data_vars)[0] raises IndexError on a Dataset without variables *)
analyze(self, dataset) ==
    IF Contains(dataset, "2t") THEN Classify(self, dataset, "2t")
    ELSE IF Len(dataset.data_vars) = 0 THEN Raised("IndexError")
    ELSE Classify(self, dataset, dataset.data_vars[1])

(***************************************************************************)
(* The callers' inputs                                                     *)
(***************************************************************************)

Engines == {"e1", "e2"}

VarOrder == <<"10u", "10v", "tp", "2t", "2d", "msl">>

Reverse(s) == [i \in 1..Len(s) |-> s[Len(s) + 1 - i]]

(* 3 and 20 m/s; 4 m/s; 0.0300 and 0.0301 m; 0 and 35 degrees C; 20 degrees C *)
Vals(name) ==
    CASE name = "10u" -> {30, 200}
      [] name = "10v" -> {40}
      [] name = "tp" -> {300, 301}
      [] name = "2t" -> {27315, 30815}
      [] name = "2d" -> {29315}
      [] OTHER -> {10132}

ScalarArrays(name) == {[dims |-> {}, values |-> <<v>>] : v \in Vals(name)}

GridArrays(name) == {[dims |-> {"x"}, values |-> g] : g \in [1..NX -> Vals(name)]}

(* a variable of the Dataset: absent (NoGrid), 0-dimensional, or over "x" *)
AnyShape(name) == {NoGrid} \cup ScalarArrays(name) \cup GridArrays(name)

GridOrAbsent(name) == {NoGrid} \cup GridArrays(name)

Dataset(order, chosen) ==
    LET present == {n \in DOMAIN chosen : chosen[n] # NoGrid}
    IN  [data_vars |-> SelectSeq(order, LAMBDA n : n \in present),
         arrays |-> [n \in present |-> chosen[n]]]

Datasets ==
    {Dataset(order, [10u |-> u, 10v |-> v, tp |-> p, 2t |-> t, 2d |-> d, msl |-> m]) :
        order \in {VarOrder, Reverse(VarOrder)},
        u \in AnyShape("10u"), v \in AnyShape("10v"), p \in AnyShape("tp"),
        t \in AnyShape("2t"), d \in AnyShape("2d"), m \in AnyShape("msl")}

(* Arguments callers construct the engine with; the third is main.py's. *)
Overrides ==
    {None,
     Mapping(EmptyMap),
     Mapping([wind_speed |-> 100, precipitation |-> 10000]),
     Mapping([wind_speed |-> 49, temp_high |-> 3400, temp_low |-> 100,
              rain_landslide |-> 300000, wbgt_high |-> 3300]),
     Mapping([wind_speed |-> 50, rain_flash_flood |-> 301000,
              rain_landslide |-> 200000, temp_low |-> -500, station |-> 7])}

(***************************************************************************)
(* State machine: a caller constructs engines and calls analyze on ds      *)
(***************************************************************************)

NoEngine == EmptyMap

NoInput == [data_vars |-> <<>>, arrays |-> EmptyMap]

NoResult == [status |-> "none", exc |-> "", risk_mask |-> NoGrid, details |-> <<>>]

(* self.thresholds of an engine that is not constructed refers to nothing *)
NoObject == <<"none">>

NoProbe == [temp_k |-> 0, dewpoint_k |-> 0, e |-> 0, wbgt |-> 0]

(* threads that share the engine "e1" *)
Threads == {"t1", "t2"}

(* a thread that has not called analyze: no arguments, no local names; *)
(* overlapped records that the other thread was inside analyze at one  *)
(* of this thread's steps                                              *)
NoFrame ==
    [pc |-> "idle", ds |-> NoInput, risk_mask |-> NoGrid, details |-> <<>>,
     out |-> NoResult, overlapped |-> FALSE]

InitWith(datasets) ==
    /\ thresholds = [e \in Engines |-> NoEngine]
    /\ arg = [e \in Engines |-> None]
    /\ ds \in datasets
    /\ result = [e \in Engines |-> NoResult]
    /\ calls = [e \in Engines |-> 0]
    /\ input = [e \in Engines |-> NoInput]
    /\ frames = [t \in Threads |-> NoFrame]
    /\ identity = [e \in Engines |-> NoObject]
    /\ probe = NoProbe

(* d[key] = value *)
Store(d, key, value) ==
    [k \in (DOMAIN d) \cup {key} |-> IF k = key THEN value ELSE d[k]]

(* the dict objects of a constructor call: the caller's argument, and the *)
(* dict that __init__ creates                                             *)
ArgId(e) == <<"thresholds argument", e>>

NewId(e) == <<"created in __init__", e>>

(* mutant: self.thresholds = thresholds for a truthy argument, and one *)
(* class-level dict of defaults otherwise                              *)
ObjectOfThresholdsAliased(e, a) ==
    IF Truthy(a) THEN ArgId(e) ELSE <<"class-level defaults">>

(* the object self.thresholds refers to: {**default_thresholds,          *)
(* **thresholds} builds a new dict, and default_thresholds is a new dict *)
(* of every __init__ call                                                *)
ObjectOfThresholds(e, a) == NewId(e)

(* analyzer = RiskAnalyzer(thresholds=a); the three keys added at the *)
(* end are stored in the object self.thresholds refers to             *)
Construct(e, a) ==
    /\ thresholds[e] = NoEngine
    /\ thresholds' = [thresholds EXCEPT ![e] = InitThresholds(a)]
    /\ identity' = [identity EXCEPT ![e] = ObjectOfThresholds(e, a)]
    /\ arg' = [arg EXCEPT ![e] = IF ObjectOfThresholds(e, a) = ArgId(e)
                                 THEN Mapping(InitThresholds(a)) ELSE a]
    /\ UNCHANGED <<ds, result, calls, input, frames, probe>>

(* the caller stores into the mapping it passed to e's constructor; every *)
(* engine whose self.thresholds is that object sees the store             *)
SetOverride(e, key, value) ==
    /\ thresholds[e] # NoEngine
    /\ arg[e].given
    /\ arg' = [arg EXCEPT ![e] = Mapping(Store(arg[e].map, key, value))]
    /\ thresholds' = [x \in Engines |-> IF identity[x] = ArgId(e)
                                        THEN Store(thresholds[x], key, value)
                                        ELSE thresholds[x]]
    /\ UNCHANGED <<ds, result, calls, input, frames, identity, probe>>

(* the caller stores into e.thresholds; every name that refers to the *)
(* same object sees the store                                         *)
SetThreshold(e, key, value) ==
    /\ thresholds[e] # NoEngine
    /\ thresholds' = [x \in Engines |-> IF identity[x] = identity[e]
                                        THEN Store(thresholds[x], key, value)
                                        ELSE thresholds[x]]
    /\ arg' = [x \in Engines |-> IF identity[e] = ArgId(x)
                                 THEN Mapping(Store(arg[x].map, key, value))
                                 ELSE arg[x]]
    /\ UNCHANGED <<ds, result, calls, input, frames, identity, probe>>

(* wbgt = analyzer.calculate_wbgt(temp_k, dewpoint_k) on two numbers *)
CalculateWbgt(temp_k, dewpoint_k) ==
    /\ probe' = [temp_k |-> temp_k, dewpoint_k |-> dewpoint_k,
                 e |-> calculate_vapor_pressure(Grid({}, <<dewpoint_k>>)).values[1],
                 wbgt |-> calculate_wbgt(Grid({}, <<temp_k>>),
                                         Grid({}, <<dewpoint_k>>)).values[1]]
    /\ UNCHANGED <<thresholds, arg, ds, result, calls, input, frames, identity>>

(* mutant: analyze keeps the converted rain in the Dataset, ds['rain_mm'] = ... *)
CallStoringRain(e) ==
    /\ result' = [result EXCEPT ![e] = analyze(thresholds[e], ds)]
    /\ input' = [input EXCEPT ![e] = ds]
    /\ calls' = [calls EXCEPT ![e] = @ + 1]
    /\ ds' = IF Contains(ds, "tp")
             THEN [data_vars |-> IF Contains(ds, "rain_mm") THEN ds.data_vars
                                 ELSE Append(ds.data_vars, "rain_mm"),
                   arrays |-> [n \in (DOMAIN ds.arrays) \cup {"rain_mm"} |->
                                  IF n = "rain_mm" THEN rain_mm_of(ds) ELSE ds.arrays[n]]]
             ELSE ds
    /\ UNCHANGED <<thresholds, arg, frames, identity, probe>>

(* mutant: the engine answers a repeated call from its previous result *)
CallMemoized(e) ==
    /\ result' = [result EXCEPT ![e] = IF result[e].status = "returned" THEN result[e]
                                       ELSE analyze(thresholds[e], ds)]
    /\ input' = [input EXCEPT ![e] = ds]
    /\ calls' = [calls EXCEPT ![e] = @ + 1]
    /\ UNCHANGED <<thresholds, arg, ds, frames, identity, probe>>

(* one execution of analyzer.analyze(ds): it reads self.thresholds and ds *)
(* and assigns neither                                                    *)
Call(e) ==
    /\ result' = [result EXCEPT ![e] = analyze(thresholds[e], ds)]
    /\ input' = [input EXCEPT ![e] = ds]
    /\ calls' = [calls EXCEPT ![e] = @ + 1]
    /\ UNCHANGED <<thresholds, arg, ds, frames, identity, probe>>

(* overall_risk, risk_details = analyzer.analyze(ds), the first call *)
Analyze(e) ==
    /\ thresholds[e] # NoEngine
    /\ result[e] = NoResult
    /\ Call(e)

(* a later call on the same engine; its result replaces the caller's *)
Reanalyze(e) ==
    /\ thresholds[e] # NoEngine
    /\ result[e] # NoResult
    /\ calls[e] < MaxCalls
    /\ Call(e)

(* the caller obtains another Dataset *)
Fetch(d) ==
    /\ d # ds
    /\ ds' = d
    /\ UNCHANGED <<thresholds, arg, result, calls, input, frames, identity, probe>>

(* the other thread is between the entry and the return of analyze *)
Busy(t) == \E o \in Threads \ {t} : frames[o].pc \notin {"idle", "done"}

(* mutant: risk_mask and risk_details are attributes of the engine, one *)
(* pair for all threads                                                 *)
FrameOfEngine(t) == "t1"

(* the frame that holds the names risk_mask and risk_details of thread  *)
(* t: locals of its own call                                            *)
Frame(t) == t

Locals(t) ==
    [risk_mask |-> frames[Frame(t)].risk_mask, details |-> frames[Frame(t)].details]

(* thread t binds acc to its local names and moves on to pc *)
Bind(t, acc, pc) ==
    /\ frames' = [frames EXCEPT ![Frame(t)].risk_mask = acc.risk_mask,
                                ![Frame(t)].details = acc.details,
                                ![t].pc = pc,
                                ![t].overlapped = @ \/ Busy(t)]
    /\ UNCHANGED <<thresholds, arg, ds, result, calls, input, identity, probe>>

(* thread t calls analyzer.analyze(ds) on the shared engine *)
Enter(t) ==
    /\ thresholds["e1"] # NoEngine
    /\ frames[t].pc = "idle"
    /\ frames' = [frames EXCEPT ![t].pc = "start", ![t].ds = ds,
                                ![t].overlapped = @ \/ Busy(t)]
    /\ UNCHANGED <<thresholds, arg, ds, result, calls, input, identity, probe>>

(* target_var = ...; risk_mask = xr.full_like(...); risk_details = {} *)
Start(t) ==
    /\ frames[t].pc = "start"
    /\ LET dataset == frames[t].ds
       IN  IF ~Contains(dataset, "2t") /\ Len(dataset.data_vars) = 0
           THEN /\ frames' = [frames EXCEPT ![t].pc = "done",
                                            ![t].out = Raised("IndexError"),
                                            ![t].overlapped = @ \/ Busy(t)]
                /\ UNCHANGED <<thresholds, arg, ds, result, calls, input, identity, probe>>
           ELSE Bind(t, [risk_mask |->
                            full_like(dataset.arrays[IF Contains(dataset, "2t") THEN "2t"
                                                     ELSE dataset.data_vars[1]], FALSE),
                         details |-> <<>>], "wind")

(* # 1. Wind Risk *)
Wind(t) ==
    /\ frames[t].pc = "wind"
    /\ Bind(t, WindStep(thresholds["e1"], frames[t].ds, Locals(t)), "rain")

(* # 2. Rain Risk *)
Rain(t) ==
    /\ frames[t].pc = "rain"
    /\ Bind(t, RainStep(thresholds["e1"], frames[t].ds, Locals(t)), "temp")

(* # 3. Temperature & WBGT Risk *)
Temp(t) ==
    /\ frames[t].pc = "temp"
    /\ Bind(t, TempStep(thresholds["e1"], frames[t].ds, Locals(t)), "return")

(* return risk_mask, risk_details *)
Return(t) ==
    /\ frames[t].pc = "return"
    /\ frames' = [frames EXCEPT ![t].pc = "done",
                                ![t].out = Returned(Locals(t).risk_mask, Locals(t).details),
                                ![t].overlapped = @ \/ Busy(t)]
    /\ UNCHANGED <<thresholds, arg, ds, result, calls, input, identity, probe>>

OverrideKeys ==
    {"wind_speed", "precipitation", "temp_high", "temp_low", "wbgt_high",
     "rain_flash_flood", "rain_landslide", "station"}

(* None, {} and every mapping from a subset of the keys to 10.0-like values *)
AllOverrides ==
    {None} \cup {Mapping(m) : m \in UNION {[K -> {100, 3000}] : K \in SUBSET OverrideKeys}}

ConstGrid(v) == [dims |-> {"x"}, values |-> [i \in 1..NX |-> v]]

UniformGrids ==
    {Dataset(VarOrder, [10u |-> ConstGrid(u), 10v |-> ConstGrid(40), tp |-> ConstGrid(301),
                        2t |-> ConstGrid(t), 2d |-> ConstGrid(29315), msl |-> NoGrid]) :
        u \in Vals("10u"), t \in Vals("2t")}

SparseGrids ==
    {Dataset(VarOrder, [10u |-> u, 10v |-> v, tp |-> p, 2t |-> t, 2d |-> d, msl |-> m]) :
        u \in GridOrAbsent("10u"), v \in GridOrAbsent("10v"), p \in GridOrAbsent("tp"),
        t \in GridOrAbsent("2t"), d \in GridOrAbsent("2d"), m \in GridOrAbsent("msl")}

Init == InitWith(Datasets)

Next ==
    \/ \E a \in Overrides : Construct("e1", a)
    \/ Analyze("e1")

Spec == Init /\ [][Next]_vars

(* construction with every override, on a few datasets *)
InitCtor == InitWith(UniformGrids)

NextCtor ==
    \/ \E a \in AllOverrides : Construct("e1", a)
    \/ Analyze("e1")

SpecCtor == InitCtor /\ [][NextCtor]_vars

(* two engines, constructed with different overrides, analyze the same ds *)
InitPair == InitWith(SparseGrids)

NextPair ==
    \/ \E e \in Engines, a \in Overrides : Construct(e, a)
    \/ \E e \in Engines : Analyze(e)

SpecPair == InitPair /\ [][NextPair]_vars

(* overrides that differ in the precipitation key and in an unknown key *)
LegacyOverrides ==
    {None,
     Mapping([precipitation |-> 300500, station |-> 7]),
     Mapping([wind_speed |-> 100, precipitation |-> 10000]),
     Mapping([wind_speed |-> 100])}

InitLegacy == InitWith(SparseGrids)

NextLegacy ==
    \/ \E e \in Engines, a \in LegacyOverrides : Construct(e, a)
    \/ \E e \in Engines : Analyze(e)

SpecLegacy == InitLegacy /\ [][NextLegacy]_vars

(* engines called repeatedly, on changing datasets, one of them empty *)
SeqDatasets ==
    UniformGrids
    \cup {Dataset(VarOrder, [msl |-> NoGrid]),
          Dataset(VarOrder, [tp |-> Grid({"x"}, [i \in 1..NX |-> IF i = 1 THEN 300 ELSE 301])])}

InitSeq == InitWith(SeqDatasets)

NextSeq ==
    \/ \E e \in Engines, a \in Overrides : Construct(e, a)
    \/ \E e \in Engines : Analyze(e)
    \/ \E e \in Engines : Reanalyze(e)
    \/ \E d \in SeqDatasets : Fetch(d)

SpecSeq == InitSeq /\ [][NextSeq]_vars

(* two threads call analyze on one engine, each with the Dataset the *)
(* caller holds at the time of its call                              *)
InitThreads == InitWith(SeqDatasets)

NextThreads ==
    \/ \E a \in Overrides : Construct("e1", a)
    \/ \E d \in SeqDatasets : Fetch(d)
    \/ \E t \in Threads : Enter(t)
    \/ \E t \in Threads : Start(t)
    \/ \E t \in Threads : Wind(t)
    \/ \E t \in Threads : Rain(t)
    \/ \E t \in Threads : Temp(t)
    \/ \E t \in Threads : Return(t)

SpecThreads == InitThreads /\ [][NextThreads]_vars

(* calculate_wbgt on air temperatures and dewpoints from 0 degree C up *)
Temperatures == {27315 + 250 * k : k \in 0..MaxTempStep}

Dewpoints == {27315 + 250 * k : k \in 0..MaxDewStep}

InitWbgt == InitWith(UniformGrids)

NextWbgt == \E temp_k \in Temperatures, dewpoint_k \in Dewpoints : CalculateWbgt(temp_k, dewpoint_k)

SpecWbgt == InitWbgt /\ [][NextWbgt]_vars

(* the caller keeps the mappings it passed and stores into them, and into *)
(* the thresholds of engine "e2", before or after the analyze calls       *)
StoredKeys == {"wind_speed"}

StoredValues == {77, 250}

AliasDatasets ==
    {Dataset(VarOrder, [10u |-> ConstGrid(u), 10v |-> ConstGrid(40), tp |-> ConstGrid(301),
                        2t |-> ConstGrid(30815), 2d |-> ConstGrid(29315), msl |-> NoGrid]) :
        u \in Vals("10u")}

InitAlias == InitWith(AliasDatasets)

NextAlias ==
    \/ \E e \in Engines, a \in Overrides : Construct(e, a)
    \/ \E e \in Engines : Analyze(e)
    \/ \E e \in Engines, k \in StoredKeys, v \in StoredValues : SetOverride(e, k, v)
    \/ \E k \in StoredKeys, v \in StoredValues : SetThreshold("e2", k, v)

SpecAlias == InitAlias /\ [][NextAlias]_vars

(***************************************************************************)
(* Properties                                                              *)
(***************************************************************************)

Keys(r) == {r.details[j].key : j \in 1..Len(r.details)}

GridOf(r, key) ==
    r.details[CHOOSE j \in 1..Len(r.details) : r.details[j].key = key].grid

Has(name) == Contains(ds, name)

AllFalse(dims) == [dims |-> dims, values |-> [i \in 1..Size(dims) |-> FALSE]]

Mixed(grid) == TRUE \in {grid.values[i] : i \in 1..Len(grid.values)}
               /\ FALSE \in {grid.values[i] : i \in 1..Len(grid.values)}

(* C1: whenever analyze returns, every cell of the combined grid is the OR *)
(* of the cells of the detail grids that line up with it (each detail grid *)
(* lies within the combined grid's dimensions), and so is False everywhere *)
(* when the detail mapping is empty.                                       *)
C1_CombinedIsOrOfDetails ==
    \A e \in Engines :
        result[e].status = "returned" =>
            LET r == result[e]
            IN  /\ \A j \in 1..Len(r.details) : r.details[j].grid.dims \subseteq r.risk_mask.dims
                /\ Len(r.risk_mask.values) = Size(r.risk_mask.dims)
                /\ \A i \in 1..Size(r.risk_mask.dims) :
                       r.risk_mask.values[i] =
                           (\E j \in 1..Len(r.details) : At(r.details[j].grid, i))

C1_Witness ==
    LET r == result["e1"]
    IN  /\ r.status = "returned"
        /\ Mixed(r.risk_mask)
        /\ \E i \in 1..NX :
               /\ r.risk_mask.values[i]
               /\ \E j \in 1..Len(r.details) : ~At(r.details[j].grid, i)
               /\ "wind_risk" \in Keys(r) /\ At(GridOf(r, "wind_risk"), i)

ExpectedKeys ==
    (IF Has("10u") /\ Has("10v") THEN {"wind_risk"} ELSE {})
    \cup (IF Has("tp") THEN {"flash_flood_risk", "landslide_risk"} ELSE {})
    \cup (IF Has("2t") THEN {"heat_risk", "cold_risk", "wbgt_risk"} ELSE {})

(* C2: whenever analyze returns, the keys of the detail mapping are        *)
(* exactly: wind_risk iff 10u and 10v are both present; flash_flood_risk   *)
(* and landslide_risk iff tp is present; heat_risk, cold_risk and          *)
(* wbgt_risk iff 2t is present (2d present or not); each key once.         *)
C2_DetailKeys ==
    \A e \in Engines :
        result[e].status = "returned" =>
            /\ Keys(result[e]) = ExpectedKeys
            /\ Len(result[e].details) = Cardinality(ExpectedKeys)

C2_Witness ==
    /\ result["e1"].status = "returned"
    /\ Has("10u") /\ ~Has("10v") /\ ~Has("tp") /\ Has("2t") /\ ~Has("2d")
    /\ Keys(result["e1"]) = {"heat_risk", "cold_risk", "wbgt_risk"}

Called(e) == result[e] # NoResult

EmptyInput == Len(ds.data_vars) = 0

DocumentedDefaults ==
    [wind_speed |-> 150, precipitation |-> 50000, temp_high |-> 3500, temp_low |-> 0,
     wbgt_high |-> 3000, rain_flash_flood |-> 300000, rain_landslide |-> 500000]

Constructed(e) == thresholds[e] # NoEngine

(* C4: after construction with an argument (None, empty or any mapping),   *)
(* all seven recognized keys are in the threshold set; a key the argument  *)
(* holds has the argument's value, any other its documented default.       *)
C4_ThresholdsAfterConstruction ==
    \A e \in Engines :
        Constructed(e) =>
            \A k \in DOMAIN DocumentedDefaults :
                /\ k \in DOMAIN thresholds[e]
                /\ thresholds[e][k] = IF arg[e].given /\ k \in DOMAIN arg[e].map
                                      THEN arg[e].map[k]
                                      ELSE DocumentedDefaults[k]

C4_Witness ==
    /\ arg["e1"] = Mapping([wind_speed |-> 100])
    /\ thresholds["e1"] = [DocumentedDefaults EXCEPT !["wind_speed"] = 100]

(* C5: whenever analyze returns and tp is present, flash_flood_risk and    *)
(* landslide_risk have the cells of tp, and a cell is True iff tp * 1000   *)
(* is strictly greater than rain_flash_flood, resp. rain_landslide; with   *)
(* rain_flash_flood = 30.0, tp = 0.030 gives False and tp = 0.0301 True.   *)
C5_RainRisks ==
    \A e \in Engines :
        (result[e].status = "returned" /\ Has("tp")) =>
            LET tp == ds.arrays["tp"]
                flash == GridOf(result[e], "flash_flood_risk")
                slide == GridOf(result[e], "landslide_risk")
            IN  /\ flash.dims = tp.dims /\ slide.dims = tp.dims
                /\ \A i \in 1..Size(tp.dims) :
                       /\ flash.values[i] <=> (tp.values[i] * 1000 > thresholds[e]["rain_flash_flood"])
                       /\ slide.values[i] <=> (tp.values[i] * 1000 > thresholds[e]["rain_landslide"])
                       /\ (thresholds[e]["rain_flash_flood"] = 300000 /\ tp.values[i] = 300)
                              => ~flash.values[i]
                       /\ (thresholds[e]["rain_flash_flood"] = 300000 /\ tp.values[i] = 301)
                              => flash.values[i]

C5_Witness ==
    /\ result["e1"].status = "returned" /\ Has("tp")
    /\ thresholds["e1"]["rain_flash_flood"] = 300000
    /\ ds.arrays["tp"] = [dims |-> {"x"}, values |-> [i \in 1..NX |-> IF i = 1 THEN 300 ELSE 301]]
    /\ GridOf(result["e1"], "flash_flood_risk").values[1] = FALSE
    /\ GridOf(result["e1"], "flash_flood_risk").values[2] = TRUE

(* C6: whenever analyze returns and 10u and 10v are present, wind_risk     *)
(* covers the union of their dimensions and a cell is True iff             *)
(* u^2 + v^2 > wind_speed^2 (the threshold being non-negative); u = 3,     *)
(* v = 4 is no risk at 15.0 or 5.0 and is a risk at 4.9.                   *)
C6_WindRisk ==
    \A e \in Engines :
        (result[e].status = "returned" /\ Has("10u") /\ Has("10v")) =>
            LET u == ds.arrays["10u"]
                v == ds.arrays["10v"]
                t == thresholds[e]["wind_speed"]
                wind == GridOf(result[e], "wind_risk")
            IN  /\ wind.dims = u.dims \cup v.dims
                /\ \A i \in 1..Size(wind.dims) :
                       /\ t >= 0 => (wind.values[i] <=>
                                       (At(u, i) * At(u, i) + At(v, i) * At(v, i) > t * t))
                       /\ (At(u, i) = 30 /\ At(v, i) = 40 /\ t \in {150, 50}) => ~wind.values[i]
                       /\ (At(u, i) = 30 /\ At(v, i) = 40 /\ t = 49) => wind.values[i]

C6_Witness ==
    /\ result["e1"].status = "returned" /\ Has("10u") /\ Has("10v")
    /\ thresholds["e1"]["wind_speed"] = 49
    /\ At(ds.arrays["10u"], 1) = 30 /\ At(ds.arrays["10v"], 1) = 40
    /\ GridOf(result["e1"], "wind_risk").values[1]

(* C7: whenever analyze returns and 2t is present, heat_risk and cold_risk *)
(* have the cells of 2t; a cell of heat_risk is True iff 2t - 273.15 is    *)
(* strictly greater than temp_high, a cell of cold_risk iff 2t - 273.15 is *)
(* strictly less than temp_low.                                            *)
C7_HeatColdRisks ==
    \A e \in Engines :
        (result[e].status = "returned" /\ Has("2t")) =>
            LET t2 == ds.arrays["2t"]
                heat == GridOf(result[e], "heat_risk")
                cold == GridOf(result[e], "cold_risk")
            IN  /\ heat.dims = t2.dims /\ cold.dims = t2.dims
                /\ \A i \in 1..Size(t2.dims) :
                       /\ heat.values[i] <=> (t2.values[i] - 27315 > thresholds[e]["temp_high"])
                       /\ cold.values[i] <=> (t2.values[i] - 27315 < thresholds[e]["temp_low"])

C7_Witness ==
    /\ result["e1"].status = "returned" /\ Has("2t")
    /\ \E i \in 1..Size(ds.arrays["2t"].dims) :
           /\ ds.arrays["2t"].values[i] - 27315 = thresholds["e1"]["temp_high"]
           /\ ~GridOf(result["e1"], "heat_risk").values[i]
    /\ \E i \in 1..Size(ds.arrays["2t"].dims) :
           /\ ds.arrays["2t"].values[i] - 27315 = thresholds["e1"]["temp_low"]
           /\ ~GridOf(result["e1"], "cold_risk").values[i]

(* C8: whenever analyze returns, 2t is present and 2d is absent, wbgt_risk *)
(* is the all-False grid over the cells of 2t, and the combined grid is    *)
(* the OR of the other detail grids alone.                                 *)
C8_WbgtWithoutDewpoint ==
    \A e \in Engines :
        (result[e].status = "returned" /\ Has("2t") /\ ~Has("2d")) =>
            LET r == result[e]
            IN  /\ GridOf(r, "wbgt_risk") = AllFalse(ds.arrays["2t"].dims)
                /\ \A i \in 1..Size(r.risk_mask.dims) :
                       r.risk_mask.values[i] =
                           (\E j \in 1..Len(r.details) :
                                r.details[j].key # "wbgt_risk" /\ At(r.details[j].grid, i))

C8_Witness ==
    /\ result["e1"].status = "returned" /\ Has("2t") /\ ~Has("2d")
    /\ ds.arrays["2t"] = [dims |-> {"x"}, values |-> [i \in 1..NX |-> 30815]]
    /\ thresholds["e1"]["wbgt_high"] = 3000
    /\ GridOf(result["e1"], "wbgt_risk") = AllFalse({"x"})

(* every True cell of g2 is a True cell of g1 *)
Within(g2, g1) ==
    /\ g2.dims = g1.dims
    /\ \A i \in 1..Size(g1.dims) : g2.values[i] => g1.values[i]

BothReturned(a, b) == result[a].status = "returned" /\ result[b].status = "returned"

NotLower(key, a, b) == thresholds[a][key] <= thresholds[b][key]

(* C9: for two engines that analyzed the same field set, b's threshold     *)
(* being no lower than a's for wind_speed, rain_flash_flood,               *)
(* rain_landslide, temp_high or wbgt_high makes every True cell of b's     *)
(* wind_risk, flash_flood_risk, landslide_risk, heat_risk, resp. wbgt_risk *)
(* a True cell of a's; b's temp_low being no higher than a's does so for   *)
(* cold_risk; and when all six hold, for the combined grid.                *)
C9_ThresholdMonotonicity ==
    \A a \in Engines, b \in Engines :
        BothReturned(a, b) =>
            LET Ga(key) == GridOf(result[a], key)
                Gb(key) == GridOf(result[b], key)
            IN  /\ (Has("10u") /\ Has("10v") /\ NotLower("wind_speed", a, b))
                       => Within(Gb("wind_risk"), Ga("wind_risk"))
                /\ (Has("tp") /\ NotLower("rain_flash_flood", a, b))
                       => Within(Gb("flash_flood_risk"), Ga("flash_flood_risk"))
                /\ (Has("tp") /\ NotLower("rain_landslide", a, b))
                       => Within(Gb("landslide_risk"), Ga("landslide_risk"))
                /\ (Has("2t") /\ NotLower("temp_high", a, b))
                       => Within(Gb("heat_risk"), Ga("heat_risk"))
                /\ (Has("2t") /\ NotLower("wbgt_high", a, b))
                       => Within(Gb("wbgt_risk"), Ga("wbgt_risk"))
                /\ (Has("2t") /\ NotLower("temp_low", b, a))
                       => Within(Gb("cold_risk"), Ga("cold_risk"))
                /\ (/\ NotLower("wind_speed", a, b) /\ NotLower("rain_flash_flood", a, b)
                    /\ NotLower("rain_landslide", a, b) /\ NotLower("temp_high", a, b)
                    /\ NotLower("wbgt_high", a, b) /\ NotLower("temp_low", b, a))
                       => Within(result[b].risk_mask, result[a].risk_mask)

C9_Witness ==
    /\ BothReturned("e1", "e2")
    /\ Has("10u") /\ Has("10v") /\ Has("2t")
    /\ thresholds["e1"]["wind_speed"] < thresholds["e2"]["wind_speed"]
    /\ thresholds["e1"]["temp_low"] > thresholds["e2"]["temp_low"]
    /\ \E i \in 1..NX : /\ GridOf(result["e1"], "wind_risk").values[i]
                        /\ ~GridOf(result["e2"], "wind_risk").values[i]
    /\ \E i \in 1..NX : /\ GridOf(result["e1"], "cold_risk").values[i]
                        /\ ~GridOf(result["e2"], "cold_risk").values[i]

(* C10: analyze called on a field set with at least one variable returns, *)
(* whichever of 10u, 10v, tp, 2t, 2d are absent, and the detail mapping    *)
(* has no key of a category whose prerequisite is absent.                  *)
C10_MissingVariablesAreSkipped ==
    \A e \in Engines :
        (Called(e) /\ ~EmptyInput) =>
            /\ result[e].status = "returned"
            /\ ~(Has("10u") /\ Has("10v")) => "wind_risk" \notin Keys(result[e])
            /\ ~Has("tp") => Keys(result[e]) \cap {"flash_flood_risk", "landslide_risk"} = {}
            /\ ~Has("2t") => Keys(result[e]) \cap {"heat_risk", "cold_risk", "wbgt_risk"} = {}

C10_Witness ==
    /\ Called("e1")
    /\ Has("10u") /\ ~Has("10v") /\ ~Has("tp") /\ ~Has("2t") /\ Has("2d")
    /\ result["e1"].status = "returned"
    /\ result["e1"].details = <<>>

(* two variables that are used together and have different dimensions *)
Mismatched(n1, n2) ==
    Has(n1) /\ Has(n2) /\ ds.arrays[n1].dims # ds.arrays[n2].dims

Template == IF Has("2t") THEN "2t" ELSE ds.data_vars[1]

(* the variables whose values enter some risk grid *)
Contributing ==
    (IF Has("10u") /\ Has("10v") THEN {"10u", "10v"} ELSE {})
    \cup (IF Has("tp") THEN {"tp"} ELSE {})
    \cup (IF Has("2t") THEN {"2t"} \cup ({"2d"} \cap DOMAIN ds.arrays) ELSE {})

(* C12 as stated: whenever analyze returns, the combined grid has exactly  *)
(* the shape of the template variable (2t if present, else the first       *)
(* variable of the field set).                                             *)
C12_CombinedHasTemplateShape ==
    \A e \in Engines :
        result[e].status = "returned" =>
            /\ result[e].risk_mask.dims = ds.arrays[Template].dims
            /\ Len(result[e].risk_mask.values) = Len(ds.arrays[Template].values)

(* C12 amended: whenever analyze returns, the combined grid covers the     *)
(* union of the dimensions of the template variable (2t if present, else   *)
(* the first variable) and of every variable that contributes a risk grid; *)
(* it has exactly the template's shape when no contributing variable has a *)
(* dimension the template lacks.                                           *)
C12_CombinedShape ==
    \A e \in Engines :
        result[e].status = "returned" =>
            LET mask == result[e].risk_mask
                template == ds.arrays[Template]
            IN  /\ mask.dims = template.dims
                                 \cup UNION {ds.arrays[n].dims : n \in Contributing}
                /\ Len(mask.values) = Size(mask.dims)
                /\ (\A n \in Contributing : ds.arrays[n].dims \subseteq template.dims)
                       => (mask.dims = template.dims
                           /\ Len(mask.values) = Len(template.values))

C12_Witness ==
    /\ result["e1"].status = "returned"
    /\ ~Has("2t") /\ Has("tp") /\ Has("msl")
    /\ Template = "msl"
    /\ ds.arrays["msl"].dims = {"x"} /\ ds.arrays["tp"].dims = {}
    /\ result["e1"].risk_mask.dims = {"x"}
    /\ TRUE \in {result["e1"].risk_mask.values[i] : i \in 1..NX}

(* C19: whenever analyze returns, tp is present and rain_landslide is not  *)
(* below rain_flash_flood, every True cell of landslide_risk is a True     *)
(* cell of flash_flood_risk.                                               *)
C19_LandslideImpliesFlashFlood ==
    \A e \in Engines :
        (/\ result[e].status = "returned" /\ Has("tp")
         /\ thresholds[e]["rain_landslide"] >= thresholds[e]["rain_flash_flood"]) =>
            Within(GridOf(result[e], "landslide_risk"), GridOf(result[e], "flash_flood_risk"))

C19_Witness ==
    /\ result["e1"].status = "returned" /\ Has("tp")
    /\ thresholds["e1"]["rain_landslide"] >= thresholds["e1"]["rain_flash_flood"]
    /\ Mixed(GridOf(result["e1"], "landslide_risk"))

UsedKeys ==
    {"wind_speed", "rain_flash_flood", "rain_landslide", "temp_high", "temp_low", "wbgt_high"}

(* C15: two engines whose threshold sets agree on wind_speed,              *)
(* rain_flash_flood, rain_landslide, temp_high, temp_low and wbgt_high     *)
(* return equal results for the same field set, whatever their             *)
(* precipitation and unrecognized keys; and every unrecognized key of the  *)
(* constructor's argument is stored, with its value, in the threshold set. *)
C15_UnusedKeysDoNotMatter ==
    /\ \A a \in Engines, b \in Engines :
           (BothReturned(a, b) /\ \A k \in UsedKeys : thresholds[a][k] = thresholds[b][k])
               => result[a] = result[b]
    /\ \A e \in Engines :
           Constructed(e) =>
               \A k \in (DOMAIN arg[e].map) \ (DOMAIN DocumentedDefaults) :
                   k \in DOMAIN thresholds[e] /\ thresholds[e][k] = arg[e].map[k]

C15_Witness ==
    /\ BothReturned("e1", "e2")
    /\ \A k \in UsedKeys : thresholds["e1"][k] = thresholds["e2"][k]
    /\ thresholds["e1"]["precipitation"] = 300500
    /\ thresholds["e2"]["precipitation"] = 50000
    /\ "station" \in DOMAIN thresholds["e1"] /\ "station" \notin DOMAIN thresholds["e2"]
    /\ Has("tp") /\ Mixed(GridOf(result["e1"], "flash_flood_risk"))
    /\ result["e1"] = result["e2"]

(* C13: no step changes the threshold set of a constructed engine, and a   *)
(* step in which analyze is called (returning or raising) leaves the field *)
(* set it was passed as it was: same variables, same values.               *)
C13_AnalyzeHasNoSideEffects ==
    [][/\ \A e \in Engines : Constructed(e) => thresholds'[e] = thresholds[e]
       /\ (\E e \in Engines : calls'[e] # calls[e]) => (ds' = ds /\ arg' = arg)]_vars

C13_Witness ==
    /\ calls["e1"] = MaxCalls /\ MaxCalls >= 2
    /\ result["e1"].status = "raised"
    /\ calls["e2"] >= 1 /\ result["e2"].status = "returned"
    /\ arg["e1"] = Mapping([wind_speed |-> 100, precipitation |-> 10000])
    /\ thresholds["e1"] = [DocumentedDefaults EXCEPT !["wind_speed"] = 100,
                                                     !["precipitation"] = 10000]

C16_ConcurrentCallsAreIndependent ==
    [][/\ Constructed("e1") => thresholds'["e1"] = thresholds["e1"]
       /\ \A t \in Threads :
              frames'[t].pc = "done" =>
                  frames'[t].out = analyze(thresholds'["e1"], frames'[t].ds)]_vars

C16_Witness ==
    /\ frames["t1"].pc = "done" /\ frames["t2"].pc = "done"
    /\ frames["t1"].overlapped /\ frames["t2"].overlapped
    /\ frames["t1"].ds # frames["t2"].ds
    /\ frames["t1"].out.status = "returned"
    /\ frames["t2"].out.status = "returned"
    /\ Mixed(frames["t1"].out.risk_mask)
    /\ frames["t1"].out # frames["t2"].out

(* C17 as written: for 308.15 K and a dewpoint of 293.15 K the vapor       *)
(* pressure is 23.37 hPa (to 0.01) and the WBGT is within 0.1 of 33.1.     *)
C17_WbgtExample ==
    (probe.temp_k = 30815 /\ probe.dewpoint_k = 29315) =>
        /\ probe.e \in 2336..2338
        /\ probe.wbgt \in (3310000 - 10000)..(3310000 + 10000)

(* C17: calculate_wbgt gives 0.567 * (temp_k - 273.15) + 0.393 * e + 3.94, *)
(* where e is the vapor pressure of the dewpoint: 6.11 hPa at 0 degree C,  *)
(* growing with the dewpoint, and e * exp(-17.67 * Td / (Td + 243.5)) is   *)
(* 6.112; for 308.15 K and 293.15 K, e is 23.37 hPa and the WBGT is within *)
(* 0.1 of 33.0.                                                            *)
C17_WbgtFormula ==
    probe # NoProbe =>
        LET ta_c == probe.temp_k - 27315
            td_c == probe.dewpoint_k - 27315
            back == probe.e * Exp(-RoundDiv(1767 * td_c * 100, td_c + 24350))
        IN  /\ probe.wbgt = 567 * ta_c + 393 * probe.e + 394000
            /\ back \in (6112000 - 10000)..(6112000 + 10000)
            /\ td_c = 0 => probe.e = 611
            /\ td_c > 0 => probe.e > 611
            /\ (ta_c = 3500 /\ td_c = 2000) =>
                   /\ probe.e = 2337
                   /\ probe.wbgt \in (3300000 - 10000)..(3300000 + 10000)

C17_Witness ==
    /\ probe.temp_k = 30815 /\ probe.dewpoint_k = 29315
    /\ probe.e = 2337
    /\ probe.wbgt = 3296941

(* C18: the dict of a constructed engine is neither a caller's argument    *)
(* nor another engine's dict; the step that constructs an engine leaves    *)
(* the caller's mapping as it was passed; a step that stores into a        *)
(* caller's mapping or into another engine's thresholds leaves this        *)
(* engine's thresholds as they were; and engine "e1", whose thresholds the *)
(* caller never stores into, keeps the thresholds its constructor gave it  *)
(* and its analyze result is the one for those thresholds.                 *)
C18_ThresholdsAreASnapshot ==
    [][/\ \A e \in Engines, x \in Engines :
              thresholds'[e] # NoEngine =>
                  /\ identity'[e] # ArgId(x)
                  /\ (x # e /\ thresholds'[x] # NoEngine) => identity'[e] # identity'[x]
       /\ \A e \in Engines :
              (thresholds[e] = NoEngine /\ thresholds'[e] # NoEngine) =>
                  (arg'[e] \in Overrides /\ thresholds'[e] = InitThresholds(arg'[e]))
       /\ \A e \in Engines :
              (/\ thresholds[e] # NoEngine
               /\ \/ arg' # arg
                  \/ \E x \in Engines \ {e} : thresholds'[x] # thresholds[x])
              => thresholds'[e] = thresholds[e]
       /\ thresholds'["e1"] # NoEngine =>
              \E a \in Overrides :
                  /\ thresholds'["e1"] = InitThresholds(a)
                  /\ calls'["e1"] > 0 =>
                         result'["e1"] = analyze(InitThresholds(a), input'["e1"])]_vars

C18_Witness ==
    /\ thresholds["e1"] # NoEngine /\ thresholds["e2"] # NoEngine
    /\ arg["e1"].given /\ arg["e2"].given
    /\ "wind_speed" \in DOMAIN arg["e1"].map /\ arg["e1"].map["wind_speed"] = 77
    /\ "wind_speed" \in DOMAIN arg["e2"].map /\ arg["e2"].map["wind_speed"] = 77
    /\ thresholds["e1"]["wind_speed"] = 49
    /\ thresholds["e2"]["wind_speed"] = 250
    /\ calls["e1"] = 1 /\ calls["e2"] = 1
    /\ ds.arrays["10u"].values[1] = 30
    /\ GridOf(result["e1"], "wind_risk").values[1]
    /\ ~GridOf(result["e2"], "wind_risk").values[1]

====
